---- MODULE Spec2Model ----
(***************************************************************************)
(* FlatPlateSurrogateData (flat_plate_surrogate.py): the build of the      *)
(* block, statement group by statement group, and the two hooks            *)
(* calculate_scaling_factors and initialize_build.                         *)
(*                                                                         *)
(* Scaling factors are held as integers in units of 1e-4, so that the      *)
(* defaults 1, 1e-2, 1e-1, 1e-3 and 1e-4 are 10000, 100, 1000, 10 and 1.   *)
(***************************************************************************)
EXTENDS Integers, Sequences, FiniteSets, TLC

VARIABLES
    pc,                \* index into BuildOrder of the next statement group of build
    error,             \* the exception build has raised to its caller, or "none"
    blockVars,         \* the pyomo Vars of the block: name -> Var record
    constraints,       \* the pyomo Constraints of the block: name -> expression
    scaling_factor,    \* the scaling_factor suffix: Var name -> factor (absent = None)
    sys_stdout,        \* the process-wide sys.stdout
    stdout_before,     \* the stream sys.stdout was when build was called
    oldstdout,         \* build's local oldstdout
    surrogate_inputs,  \* self.surrogate_inputs
    surrogate_outputs, \* self.surrogate_outputs
    surrogate_file,    \* self.surrogate_file
    surrogate,         \* self.surrogate
    surrogate_blk,     \* self.surrogate_blk
    fileState,         \* what is on disk at the surrogate file path
    loads,             \* history: number of PysmoSurrogate.load_from_file calls
    lastSet,           \* history: Vars the latest calculate_scaling_factors call set
    consecutive        \* history: calculate_scaling_factors calls since the factors
                       \* were last changed from outside

vars == <<pc, error, blockVars, constraints, scaling_factor, sys_stdout,
          stdout_before, oldstdout, surrogate_inputs, surrogate_outputs,
          surrogate_file, surrogate, surrogate_blk, fileState, loads,
          lastSet, consecutive>>

buildState == <<pc, error, blockVars, constraints, sys_stdout, stdout_before,
                oldstdout, surrogate_inputs, surrogate_outputs, surrogate_file,
                surrogate, surrogate_blk, fileState, loads>>

(***************************************************************************)
(* Bounds of the model.                                                    *)
(***************************************************************************)
MaxCalls == 3

\* Factors a flowsheet sets by hand before or between the calls (units of 1e-4).
UserSfValues == {3, 20000}

\* The streams sys.stdout may be when build is called.
Streams == {"console", "logfile"}

\* What the surrogate file path may hold.
FileStates == {"ok", "missing", "malformed_json", "label_mismatch"}

(***************************************************************************)
(* Pyomo Vars.                                                             *)
(***************************************************************************)
\* Var(initialize=, bounds=, units=): bounds is <<>> when none are given.
Var(init, bnds, u) ==
    [initialize |-> init, bounds |-> bnds, units |-> u, value |-> init]

\* SolarEnergyBase.build: the per-unit-time quantities of the base class.
BaseVars ==
    ("electricity" :> Var(0, <<>>, "kW")) @@ ("heat" :> Var(0, <<>>, "kW"))

\* Mutant: the initial guess of heat_load lies above its upper bound.
DeclaredVars_guess_out_of_bounds ==
    ("heat_load" :> Var(1100, <<100, 1000>>, "MW"))
    @@ ("hours_storage" :> Var(20, <<0, 26>>, "hour"))
    @@ ("temperature_hot" :> Var(70, <<50, 100>>, "C"))
    @@ ("heat_annual" :> Var(1000, <<>>, "kWh"))
    @@ ("electricity_annual" :> Var(20, <<>>, "kWh"))

\* The five Vars build declares.
DeclaredVars ==
    ("heat_load" :> Var(1000, <<100, 1000>>, "MW"))
    @@ ("hours_storage" :> Var(20, <<0, 26>>, "hour"))
    @@ ("temperature_hot" :> Var(70, <<50, 100>>, "C"))
    @@ ("heat_annual" :> Var(1000, <<>>, "kWh"))
    @@ ("electricity_annual" :> Var(20, <<>>, "kWh"))

\* pyunits.convert(1 * pyunits.year, to_units=pyunits.hour): 365.25 days of 24 h.
HoursPerYear == 8766

(***************************************************************************)
(* build, in the order of its statements.                                  *)
(***************************************************************************)
\* Mutant: the conversion constraints are added before the Vars are declared.
BuildOrder_constraints_early ==
    << "super_build", "add_constraints", "declare_vars", "swap_stdout",
       "list_bindings", "load_surrogate", "build_model", "restore_stdout" >>

BuildOrder ==
    << "super_build", "declare_vars", "swap_stdout", "list_bindings",
       "load_surrogate", "build_model", "add_constraints", "restore_stdout" >>

Done == Len(BuildOrder) + 1

\* build is at statement group s and has not raised.
At(s) == error = "none" /\ pc \in 1..Len(BuildOrder) /\ BuildOrder[pc] = s

\* The attributes of self and the locals of build that exist so far.
Created ==
    DOMAIN blockVars
    \cup (IF oldstdout # "unset" THEN {"oldstdout"} ELSE {})
    \cup (IF surrogate_inputs # <<>> THEN {"surrogate_inputs"} ELSE {})
    \cup (IF surrogate_outputs # <<>> THEN {"surrogate_outputs"} ELSE {})
    \cup (IF surrogate_file # "None" THEN {"surrogate_file"} ELSE {})
    \cup (IF surrogate # "None" THEN {"surrogate"} ELSE {})
    \cup (IF surrogate_blk.exists THEN {"surrogate_blk"} ELSE {})

\* An exception leaves build at once: nothing catches it.
Raise(e) ==
    /\ error' = e
    /\ UNCHANGED <<pc, blockVars, constraints, scaling_factor, sys_stdout,
                   stdout_before, oldstdout, surrogate_inputs, surrogate_outputs,
                   surrogate_file, surrogate, surrogate_blk, fileState, loads,
                   lastSet, consecutive>>

\* Reading an attribute or a local that does not exist raises.
Missing(refs) == ~(refs \subseteq Created)

super_build ==
    /\ At("super_build")
    /\ blockVars' = BaseVars @@ blockVars
    /\ pc' = pc + 1
    /\ UNCHANGED <<error, constraints, scaling_factor, sys_stdout, stdout_before,
                   oldstdout, surrogate_inputs, surrogate_outputs, surrogate_file,
                   surrogate, surrogate_blk, fileState, loads, lastSet, consecutive>>

declare_vars ==
    /\ At("declare_vars")
    /\ blockVars' = DeclaredVars @@ blockVars
    /\ pc' = pc + 1
    /\ UNCHANGED <<error, constraints, scaling_factor, sys_stdout, stdout_before,
                   oldstdout, surrogate_inputs, surrogate_outputs, surrogate_file,
                   surrogate, surrogate_blk, fileState, loads, lastSet, consecutive>>

swap_stdout ==
    /\ At("swap_stdout")
    /\ oldstdout' = sys_stdout
    /\ sys_stdout' = "StringIO"
    /\ pc' = pc + 1
    /\ UNCHANGED <<error, blockVars, constraints, scaling_factor, stdout_before,
                   surrogate_inputs, surrogate_outputs, surrogate_file,
                   surrogate, surrogate_blk, fileState, loads, lastSet, consecutive>>

list_bindings ==
    /\ At("list_bindings")
    /\ IF Missing({"heat_load", "hours_storage", "temperature_hot",
                   "heat_annual", "electricity_annual"})
       THEN Raise("AttributeError")
       ELSE /\ surrogate_inputs' = <<"heat_load", "hours_storage", "temperature_hot">>
            /\ surrogate_outputs' = <<"heat_annual", "electricity_annual">>
            /\ surrogate_file' = "flat_plate_surrogate.json"
            /\ pc' = pc + 1
            /\ UNCHANGED <<error, blockVars, constraints, scaling_factor, sys_stdout,
                           stdout_before, oldstdout, surrogate, surrogate_blk,
                           fileState, loads, lastSet, consecutive>>

\* PysmoSurrogate.load_from_file: the exception it raises on the file, or "none".
load_from_file(state) ==
    CASE state = "missing" -> "FileNotFoundError"
      [] state = "malformed_json" -> "JSONDecodeError"
      [] OTHER -> "none"

\* Mutant: a failed load is caught and build carries on without a surrogate.
load_surrogate_caught ==
    /\ At("load_surrogate")
    /\ surrogate_blk' = [exists |-> TRUE, input_vars |-> <<>>, output_vars |-> <<>>]
    /\ loads' = loads + 1
    /\ surrogate' = IF load_from_file(fileState) # "none" THEN "None"
                    ELSE surrogate_file
    /\ pc' = pc + 1
    /\ UNCHANGED <<error, blockVars, constraints, scaling_factor, sys_stdout,
                   stdout_before, oldstdout, surrogate_inputs, surrogate_outputs,
                   surrogate_file, fileState, lastSet, consecutive>>

load_surrogate ==
    /\ At("load_surrogate")
    /\ IF Missing({"surrogate_file"})
       THEN Raise("AttributeError")
       ELSE /\ surrogate_blk' = [exists |-> TRUE, input_vars |-> <<>>,
                                 output_vars |-> <<>>]
            /\ loads' = loads + 1
            /\ IF load_from_file(fileState) # "none"
               THEN /\ error' = load_from_file(fileState)
                    /\ UNCHANGED <<pc, surrogate>>
               ELSE /\ surrogate' = surrogate_file
                    /\ pc' = pc + 1
                    /\ UNCHANGED error
            /\ UNCHANGED <<blockVars, constraints, scaling_factor, sys_stdout,
                           stdout_before, oldstdout, surrogate_inputs,
                           surrogate_outputs, surrogate_file, fileState,
                           lastSet, consecutive>>

build_model ==
    /\ At("build_model")
    /\ IF Missing({"surrogate_blk", "surrogate", "surrogate_inputs",
                   "surrogate_outputs"})
       THEN Raise("AttributeError")
       ELSE IF fileState = "label_mismatch"
       THEN Raise("ValueError")
       ELSE /\ surrogate_blk' = [surrogate_blk EXCEPT
                                    !.input_vars = surrogate_inputs,
                                    !.output_vars = surrogate_outputs]
            /\ pc' = pc + 1
            /\ UNCHANGED <<error, blockVars, constraints, scaling_factor, sys_stdout,
                           stdout_before, oldstdout, surrogate_inputs,
                           surrogate_outputs, surrogate_file, surrogate,
                           fileState, loads, lastSet, consecutive>>

\* Mutant: electricity_constraint is written against heat.
ConversionConstraints_wrong_rhs ==
    ("heat_constraint" :>
        [lhs |-> "heat_annual", rhs |-> "heat", factor |-> HoursPerYear])
    @@ ("electricity_constraint" :>
        [lhs |-> "electricity_annual", rhs |-> "heat", factor |-> HoursPerYear])

\* The two Constraint(expr= lhs == rhs * factor) of build.
ConversionConstraints ==
    ("heat_constraint" :>
        [lhs |-> "heat_annual", rhs |-> "heat", factor |-> HoursPerYear])
    @@ ("electricity_constraint" :>
        [lhs |-> "electricity_annual", rhs |-> "electricity",
         factor |-> HoursPerYear])

add_constraints ==
    /\ At("add_constraints")
    /\ IF Missing({"heat_annual", "heat", "electricity_annual", "electricity"})
       THEN Raise("AttributeError")
       ELSE /\ constraints' = ConversionConstraints @@ constraints
            /\ pc' = pc + 1
            /\ UNCHANGED <<error, blockVars, scaling_factor, sys_stdout,
                           stdout_before, oldstdout, surrogate_inputs,
                           surrogate_outputs, surrogate_file, surrogate,
                           surrogate_blk, fileState, loads, lastSet, consecutive>>

\* Mutant: the buffer, not the saved stream, is assigned back.
restore_stdout_buffer ==
    /\ At("restore_stdout")
    /\ sys_stdout' = "StringIO"
    /\ pc' = pc + 1
    /\ UNCHANGED <<error, blockVars, constraints, scaling_factor,
                   stdout_before, oldstdout, surrogate_inputs,
                   surrogate_outputs, surrogate_file, surrogate,
                   surrogate_blk, fileState, loads, lastSet, consecutive>>

restore_stdout ==
    /\ At("restore_stdout")
    /\ IF Missing({"oldstdout"})
       THEN Raise("UnboundLocalError")
       ELSE /\ sys_stdout' = oldstdout
            /\ pc' = pc + 1
            /\ UNCHANGED <<error, blockVars, constraints, scaling_factor,
                           stdout_before, oldstdout, surrogate_inputs,
                           surrogate_outputs, surrogate_file, surrogate,
                           surrogate_blk, fileState, loads, lastSet, consecutive>>

(***************************************************************************)
(* Scaling factors.                                                        *)
(***************************************************************************)
\* The Vars calculate_scaling_factors looks at.
SfVars == {"hours_storage", "heat_load", "temperature_hot", "heat_annual",
           "heat", "electricity_annual", "electricity"}

\* num/den in units of 1e-4.
Frac(num, den) == (num * 10000) \div den

\* iscale.get_scaling_factor(var) is None
is_None(st, v) == v \notin DOMAIN st.sf

\* Mutant: the default argument is ignored and 1 is returned for an unset Var.
get_scaling_factor_default_one(st, v, d) ==
    IF v \in DOMAIN st.sf THEN st.sf[v] ELSE Frac(1, 1)

\* iscale.get_scaling_factor(var, default=d)
get_scaling_factor(st, v, d) == IF v \in DOMAIN st.sf THEN st.sf[v] ELSE d

\* iscale.set_scaling_factor(var, sf); st.set records the Vars that were set.
set_scaling_factor(st, v, sf) ==
    [sf |-> (v :> sf) @@ st.sf, set |-> st.set \cup {v}]

\* Mutant: the default is set without the "is None" test.
default_unconditional(st, v, d) == set_scaling_factor(st, v, d)

\* if get_scaling_factor(v) is None: set_scaling_factor(v, get_scaling_factor(v, d))
default_if_None(st, v, d) ==
    IF is_None(st, v)
    THEN set_scaling_factor(st, v, get_scaling_factor(st, v, d))
    ELSE st

\* Mutant: the conditional for heat lacks its "is None" test, so that the factor
\* heat has (or its default) is set on every call.
scaling_defaults_heat_unguarded(sf) ==
    LET s0 == [sf |-> sf, set |-> {}]
        s1 == default_if_None(s0, "hours_storage", Frac(1, 1))
        s2 == default_if_None(s1, "heat_load", Frac(1, 100))
        s3 == default_if_None(s2, "temperature_hot", Frac(1, 10))
        s4 == default_if_None(s3, "heat_annual", Frac(1, 10000))
        s5 == set_scaling_factor(s4, "heat",
                                 get_scaling_factor(s4, "heat", Frac(1, 10000)))
        s6 == default_if_None(s5, "electricity_annual", Frac(1, 1000))
        s7 == default_if_None(s6, "electricity", Frac(1, 1000))
    IN  s7

\* The seven conditionals of calculate_scaling_factors, in order.
scaling_defaults(sf) ==
    LET s0 == [sf |-> sf, set |-> {}]
        s1 == default_if_None(s0, "hours_storage", Frac(1, 1))
        s2 == default_if_None(s1, "heat_load", Frac(1, 100))
        s3 == default_if_None(s2, "temperature_hot", Frac(1, 10))
        s4 == default_if_None(s3, "heat_annual", Frac(1, 10000))
        s5 == default_if_None(s4, "heat", Frac(1, 10000))
        s6 == default_if_None(s5, "electricity_annual", Frac(1, 1000))
        s7 == default_if_None(s6, "electricity", Frac(1, 1000))
    IN  s7

calculate_scaling_factors ==
    /\ pc = Done
    /\ consecutive < MaxCalls
    /\ scaling_factor' = scaling_defaults(scaling_factor).sf
    /\ lastSet' = scaling_defaults(scaling_factor).set
    /\ consecutive' = consecutive + 1
    /\ UNCHANGED buildState

\* Mutant: initialize_build loads the surrogate file again.
initialize_build_reload ==
    /\ pc = Done
    /\ loads < 2
    /\ loads' = loads + 1
    /\ surrogate' = surrogate_file
    /\ UNCHANGED <<pc, error, blockVars, constraints, scaling_factor, sys_stdout,
                   stdout_before, oldstdout, surrogate_inputs, surrogate_outputs,
                   surrogate_file, surrogate_blk, fileState, lastSet, consecutive>>

initialize_build ==
    /\ pc = Done
    /\ UNCHANGED vars

\* The flowsheet sets a factor of the built block itself with
\* iscale.set_scaling_factor, which is what a later call must leave alone.
user_set_scaling_factor ==
    /\ pc = Done
    /\ \E v \in SfVars, sf \in UserSfValues :
          scaling_factor' =
              set_scaling_factor([sf |-> scaling_factor, set |-> {}], v, sf).sf
    /\ lastSet' = {}
    /\ consecutive' = 0
    /\ UNCHANGED buildState

(***************************************************************************)
(* Specification.                                                          *)
(***************************************************************************)
Init ==
    /\ pc = 1
    /\ error = "none"
    /\ blockVars = <<>>
    /\ constraints = <<>>
    /\ scaling_factor = <<>>
    /\ stdout_before \in Streams
    /\ sys_stdout = stdout_before
    /\ oldstdout = "unset"
    /\ surrogate_inputs = <<>>
    /\ surrogate_outputs = <<>>
    /\ surrogate_file = "None"
    /\ surrogate = "None"
    /\ surrogate_blk = [exists |-> FALSE, input_vars |-> <<>>, output_vars |-> <<>>]
    /\ fileState \in FileStates
    /\ loads = 0
    /\ lastSet = {}
    /\ consecutive = 0

Next ==
    \/ super_build
    \/ declare_vars
    \/ swap_stdout
    \/ list_bindings
    \/ load_surrogate
    \/ build_model
    \/ add_constraints
    \/ restore_stdout
    \/ calculate_scaling_factors
    \/ initialize_build
    \/ user_set_scaling_factor

Spec == Init /\ [][Next]_vars

(***************************************************************************)
(* Properties.                                                             *)
(***************************************************************************)
\* A step that is one call of calculate_scaling_factors.
Called == consecutive' = consecutive + 1

DeclaredNames == {"heat_load", "hours_storage", "temperature_hot",
                  "heat_annual", "electricity_annual"}
BoundedNames == {"heat_load", "hours_storage", "temperature_hot"}
AnnualNames == {"heat_annual", "electricity_annual"}

\* The defaults as the specification lists them, in units of 1e-4.
ClaimedDefault ==
    [v \in SfVars |->
        CASE v = "hours_storage" -> 10000
          [] v = "heat_load" -> 100
          [] v = "temperature_hot" -> 1000
          [] v = "heat_annual" -> 1
          [] v = "heat" -> 1
          [] v = "electricity_annual" -> 10
          [] v = "electricity" -> 10]

\* C1: a call of calculate_scaling_factors leaves every scaling factor that was
\* set before the call as it was, whichever of the seven Vars had one.
C1_SetFactorsUntouched ==
    [][Called =>
        \A v \in SfVars \cap DOMAIN scaling_factor :
            /\ v \in DOMAIN scaling_factor'
            /\ scaling_factor'[v] = scaling_factor[v]]_vars

\* A call has run on a block where some Vars had a hand-set factor and others
\* had none, and a hand-set factor is still there.
C1_Witness ==
    /\ consecutive = 1
    /\ lastSet # {}
    /\ lastSet # SfVars
    /\ \E v \in SfVars \ lastSet : scaling_factor[v] \in UserSfValues

\* C2: after a call of calculate_scaling_factors every Var that had no scaling
\* factor has exactly its default, and all seven Vars have a scaling factor.
C2_DefaultsApplied ==
    [][Called =>
        /\ DOMAIN scaling_factor' = SfVars
        /\ \A v \in SfVars \ DOMAIN scaling_factor :
              scaling_factor'[v] = ClaimedDefault[v]]_vars

\* A call has run on a block where no Var had a factor: all seven were set.
C2_Witness ==
    /\ consecutive = 1
    /\ lastSet = SfVars
    /\ scaling_factor = ClaimedDefault

\* Values tried for heat, electricity and the two annual Vars.
AssignValues == {0, 1, HoursPerYear}
Assignments == [{"heat", "electricity", "heat_annual", "electricity_annual"}
                    -> AssignValues]

\* The assignment a satisfies every conversion constraint of the block.
Satisfies(a) ==
    \A c \in DOMAIN constraints :
        a[constraints[c].lhs] = a[constraints[c].rhs] * constraints[c].factor

\* C3: after build the block holds exactly heat_constraint and
\* electricity_constraint, both with the same hours-per-year factor, and in every
\* assignment that satisfies them heat_annual = heat * factor and
\* electricity_annual = electricity * factor.
C3_ConversionConstraints ==
    pc = Done =>
        /\ DOMAIN constraints = {"heat_constraint", "electricity_constraint"}
        /\ constraints["heat_constraint"].factor
               = constraints["electricity_constraint"].factor
        /\ \A a \in Assignments :
              Satisfies(a) =>
                 /\ a["heat_annual"]
                        = a["heat"] * constraints["heat_constraint"].factor
                 /\ a["electricity_annual"]
                        = a["electricity"] * constraints["heat_constraint"].factor

\* The built block has an assignment with nonzero heat that satisfies it.
C3_Witness ==
    /\ pc = Done
    /\ DOMAIN constraints # {}
    /\ \E a \in Assignments :
          Satisfies(a) /\ a["heat"] = 1 /\ a["electricity"] = 0

\* C4: build runs base build, Var declarations, surrogate load, surrogate
\* binding to [heat_load, hours_storage, temperature_hot] and [heat_annual,
\* electricity_annual], conversion constraints, in this order; build sets no
\* scaling factor; no step reads a Var or surrogate that does not exist yet.
C4_LifecycleOrder ==
    /\ error \notin {"AttributeError", "UnboundLocalError"}
    /\ (DOMAIN blockVars \cap DeclaredNames # {}
            => {"heat", "electricity"} \subseteq DOMAIN blockVars)
    /\ (surrogate # "None" => DeclaredNames \subseteq DOMAIN blockVars)
    /\ (surrogate_blk.input_vars # <<>> \/ surrogate_blk.output_vars # <<>>
            => /\ surrogate # "None"
               /\ surrogate_blk.input_vars
                      = <<"heat_load", "hours_storage", "temperature_hot">>
               /\ surrogate_blk.output_vars
                      = <<"heat_annual", "electricity_annual">>)
    /\ (DOMAIN constraints # {} => surrogate_blk.input_vars # <<>>)
    /\ (pc # Done => DOMAIN scaling_factor = {})

\* build has run to its end and a later call has set scaling defaults.
C4_Witness ==
    /\ pc = Done
    /\ DOMAIN constraints # {}
    /\ surrogate_blk.input_vars # <<>>
    /\ lastSet # {}

\* C5: one build loads the surrogate file exactly once, and after build no
\* operation loads it again or changes the surrogate, its file path or its
\* input/output binding.
C5_SurrogateLoadedOnce ==
    /\ [](loads <= 1 /\ (pc = Done => loads = 1))
    /\ [][pc = Done =>
             UNCHANGED <<loads, surrogate, surrogate_file, surrogate_inputs,
                         surrogate_outputs, surrogate_blk>>]_vars

\* The built block has seen two or more calculate_scaling_factors calls (and
\* initialize_build at will) and holds the surrogate of its one load.
C5_Witness ==
    /\ pc = Done
    /\ loads = 1
    /\ surrogate = "flat_plate_surrogate.json"
    /\ consecutive >= 2

\* C6: when the surrogate load or the surrogate model build fails, the error
\* reaches the caller of build, no conversion constraint is added and build
\* does not complete.
C6_ErrorsSurfaced ==
    /\ (loads = 1 /\ fileState = "missing" => error = "FileNotFoundError")
    /\ (loads = 1 /\ fileState = "malformed_json" => error = "JSONDecodeError")
    /\ (fileState # "ok" => surrogate_blk.input_vars = <<>>)
    /\ (fileState # "ok" \/ error # "none"
            => pc # Done /\ DOMAIN constraints = {})

\* The load has run on a missing file.
C6_Witness ==
    /\ loads = 1
    /\ fileState = "missing"
    /\ error = "FileNotFoundError"
    /\ DOMAIN constraints = {}

\* C7 as stated: the block has six bounded Vars with units and an initial guess
\* within bounds, and two annual output Vars.
C7_SixBoundedVars ==
    pc = Done =>
        /\ Cardinality({v \in DOMAIN blockVars : blockVars[v].bounds # <<>>}) = 6
        /\ \A v \in DOMAIN blockVars :
              blockVars[v].bounds # <<>> =>
                 /\ blockVars[v].units # ""
                 /\ blockVars[v].bounds[1] <= blockVars[v].initialize
                 /\ blockVars[v].initialize <= blockVars[v].bounds[2]
        /\ AnnualNames \subseteq DOMAIN blockVars

\* C7 amended: of the Vars build declares, exactly heat_load, hours_storage and
\* temperature_hot are bounded, each with units and an initial guess within its
\* bounds; heat_annual and electricity_annual have units and an initial guess,
\* no bounds, and are the outputs bound to the surrogate.
C7_ThreeBoundedVars ==
    pc = Done =>
        /\ DeclaredNames \subseteq DOMAIN blockVars
        /\ {v \in DeclaredNames : blockVars[v].bounds # <<>>} = BoundedNames
        /\ \A v \in BoundedNames :
              /\ blockVars[v].units # ""
              /\ Len(blockVars[v].bounds) = 2
              /\ blockVars[v].bounds[1] <= blockVars[v].initialize
              /\ blockVars[v].initialize <= blockVars[v].bounds[2]
              /\ blockVars[v].value = blockVars[v].initialize
        /\ \A v \in AnnualNames :
              /\ blockVars[v].units = "kWh"
              /\ blockVars[v].value = blockVars[v].initialize
        /\ {surrogate_blk.output_vars[i] :
               i \in 1..Len(surrogate_blk.output_vars)} = AnnualNames

\* The built block holds heat_load with its guess on its upper bound.
C7_Witness ==
    /\ pc = Done
    /\ "heat_load" \in DOMAIN blockVars
    /\ blockVars["heat_load"].initialize = blockVars["heat_load"].bounds[2]

\* C8: calculate_scaling_factors is idempotent: a call that follows a call
\* changes no scaling factor and sets none, and no call changes a Var value,
\* a bound or a constraint.
C8_Idempotent ==
    [][Called =>
        /\ UNCHANGED <<blockVars, constraints>>
        /\ (consecutive >= 1 =>
               scaling_factor' = scaling_factor /\ lastSet' = {})]_vars

\* A second call has run on factors that are partly hand-set, partly defaults.
C8_Witness ==
    /\ consecutive >= 2
    /\ lastSet = {}
    /\ \E v \in SfVars : scaling_factor[v] \in UserSfValues
    /\ \E v \in SfVars : scaling_factor[v] = ClaimedDefault[v]

\* C9: when build returns normally sys.stdout is the stream it was before the
\* call; it is the in-memory buffer only after the Var declarations and before
\* build's end.
C9_StdoutRestored ==
    /\ (pc = Done => sys_stdout = stdout_before)
    /\ (sys_stdout # stdout_before =>
           /\ sys_stdout = "StringIO"
           /\ DeclaredNames \subseteq DOMAIN blockVars
           /\ pc # Done)
    /\ (DOMAIN constraints = {} /\ oldstdout = "unset"
           => sys_stdout = stdout_before)

\* build has returned normally with sys.stdout redirected to a log file before.
C9_Witness ==
    /\ pc = Done
    /\ error = "none"
    /\ oldstdout = "logfile"
    /\ sys_stdout = "logfile"

\* C10: when build exits by an error, sys.stdout is again the stream it was
\* before the call.
C10_StdoutRestoredOnError ==
    error # "none" => sys_stdout = stdout_before

====
